---- MODULE Spec2Model ----
(***************************************************************************)
(* Observer / Observable of src/index.js as a state machine.               *)
(*                                                                         *)
(* An Observer is a record holding the three fields of the class           *)
(* (handlers, isUnsubscribed, _unsubscribe) and two history fields:        *)
(*   entered  the method of the Observer last entered from outside the     *)
(*            class (by the producer or through the subscription handle);  *)
(*   trace    the handler and teardown bodies that executed, in order,     *)
(*            each with its argument, the value isUnsubscribed had when    *)
(*            it ran (term) and the method entered from outside in which   *)
(*            it ran (via).                                                *)
(*                                                                         *)
(* The model follows one Observable and the Observers its subscribe calls  *)
(* create.  Under Spec the handlers are the sample-usage kind: they run    *)
(* to completion and do not call back into the Observer.  SpecReentrant    *)
(* has handlers that call back into their Observer while they run.  In     *)
(* both a call made on an Observer from outside is one step.               *)
(***************************************************************************)
EXTENDS Integers, Sequences, FiniteSets

\* ---------------------------------------------------------------- bounds
MaxObservers == 2       \* subscribe calls (one Observer each)
MaxCalls == 2           \* method calls made after a subscribe returned
MaxLen == 2             \* longest array handed to Observable.from

\* payloads: values emitted and errors raised are opaque to the core
Values == {1, 2}

\* `undefined`: the optional _unsubscribe field, a producer returning nothing
None == 0
\* the closures that can end up in _unsubscribe: the one Observable.from
\* returns, the one a producer given to the constructor returns, and one a
\* producer attaches itself through setUnsubscribe
FromTeardown == 1
ProducerTeardown == 2
LateTeardown == 3

VARIABLES
    observable,    \* the Observable: its _subscribe field, NoObservable before construction
    invoked,       \* the Observers the producer was run with, one entry per run
    observers,     \* heap of Observer objects, in allocation order
    handles,       \* the Observer each handle returned by subscribe closes over
    calls          \* number of method calls made after a subscribe returned

vars == <<observable, invoked, observers, handles, calls>>

NoObservable == [kind |-> "none"]

\* ------------------------------------------------------------- history
RunEv(o, op, arg) == [op |-> op, arg |-> arg, term |-> o.isUnsubscribed, via |-> o.entered]

\* a method of the Observer is entered from outside the class
Called(o, op) == [o EXCEPT !.entered = op]
\* a handler body or the teardown closure executes
Ran(o, op, arg) == [o EXCEPT !.trace = Append(@, RunEv(o, op, arg))]

\* ------------------------------------------------------------- Observer
HandlerSets == [next : BOOLEAN, error : BOOLEAN, complete : BOOLEAN]

NewObserver(handlers) ==
    [handlers |-> handlers, isUnsubscribed |-> FALSE, unsubscribeFn |-> None,
     entered |-> "constructor", trace |-> <<>>]

\* faulty variant: unsubscribe announces the end of the stream to the consumer
ObsUnsubscribeNotifies(o) ==
    LET o0 == IF ~o.isUnsubscribed /\ o.handlers.complete THEN Ran(o, "complete", 0) ELSE o
        o1 == [o0 EXCEPT !.isUnsubscribed = TRUE]
    IN  IF o1.unsubscribeFn # None THEN Ran(o1, "teardown", o1.unsubscribeFn) ELSE o1

ObsUnsubscribe(o) ==
    LET o1 == [o EXCEPT !.isUnsubscribed = TRUE]
    IN  IF o1.unsubscribeFn # None THEN Ran(o1, "teardown", o1.unsubscribeFn) ELSE o1

\* faulty variant: the handler is called without its argument
ObsNextDropsValue(o, value) ==
    IF o.handlers.next /\ ~o.isUnsubscribed THEN Ran(o, "next", 0) ELSE o

\* faulty variant: next forgets to look at isUnsubscribed
ObsNextUnguarded(o, value) ==
    IF o.handlers.next THEN Ran(o, "next", value) ELSE o

ObsNext(o, value) ==
    IF o.handlers.next /\ ~o.isUnsubscribed THEN Ran(o, "next", value) ELSE o

\* faulty variant: the subscription is torn down before the handler is told
ObsErrorTeardownFirst(o, error) ==
    IF ~o.isUnsubscribed
    THEN LET o1 == ObsUnsubscribe(o)
         IN  IF o1.handlers.error THEN Ran(o1, "error", error) ELSE o1
    ELSE o

\* faulty variant: the handler is called without the presence check; calling an
\* absent handler throws before this.unsubscribe() is reached
ObsErrorUnchecked(o, error) ==
    IF ~o.isUnsubscribed
    THEN IF o.handlers.error THEN ObsUnsubscribe(Ran(o, "error", error)) ELSE o
    ELSE o

ObsError(o, error) ==
    IF ~o.isUnsubscribed
    THEN ObsUnsubscribe(IF o.handlers.error THEN Ran(o, "error", error) ELSE o)
    ELSE o

\* faulty variant: complete forgets to look at isUnsubscribed
ObsCompleteUnguarded(o) ==
    ObsUnsubscribe(IF o.handlers.complete THEN Ran(o, "complete", 0) ELSE o)

ObsComplete(o) ==
    IF ~o.isUnsubscribed
    THEN ObsUnsubscribe(IF o.handlers.complete THEN Ran(o, "complete", 0) ELSE o)
    ELSE o

\* faulty variant: attaching a teardown makes the Observer active again
ObsSetUnsubscribeReactivates(o, unsubscribe) ==
    [o EXCEPT !.unsubscribeFn = unsubscribe, !.isUnsubscribed = FALSE]

\* faulty variant: a teardown attached to a terminated Observer is run at once
ObsSetUnsubscribeRunsIfClosed(o, unsubscribe) ==
    LET o1 == [o EXCEPT !.unsubscribeFn = unsubscribe]
    IN  IF o1.isUnsubscribed THEN Ran(o1, "teardown", unsubscribe) ELSE o1

ObsSetUnsubscribe(o, unsubscribe) == [o EXCEPT !.unsubscribeFn = unsubscribe]

\* ----------------------------------------------------------- Observable
\* values.forEach((value) => observer.next(value))
RECURSIVE ForEachNext(_, _)
ForEachNext(values, o) ==
    IF values = <<>> THEN o
    ELSE ForEachNext(Tail(values), ObsNext(Called(o, "next"), Head(values)))

\* faulty variant: complete is called before the values are emitted
FromProducerCompletesFirst(values, o) ==
    LET o1 == ObsComplete(Called(o, "complete"))
        o2 == ForEachNext(values, o1)
    IN  [observer |-> o2, ret |-> FromTeardown]

\* the producer built by Observable.from(values), run with observer o
FromProducer(values, o) ==
    LET o1 == ForEachNext(values, o)
        o2 == ObsComplete(Called(o1, "complete"))
    IN  [observer |-> o2, ret |-> FromTeardown]

\* A producer handed to `new Observable(...)`: it keeps the observer for
\* later calls, may fail at once (one synchronous error call) and returns
\* a teardown closure or nothing.
CustomProducers == [kind : {"custom"}, syncError : BOOLEAN, ret : {None, ProducerTeardown}]

CustomProducer(p, o) ==
    LET o1 == IF p.syncError THEN ObsError(Called(o, "error"), 1) ELSE o
    IN  [observer |-> o1, ret |-> p.ret]

RunProducer(p, o) ==
    IF p.kind = "from" THEN FromProducer(p.values, o) ELSE CustomProducer(p, o)

RECURSIVE SeqsUpTo(_)
SeqsUpTo(n) ==
    IF n = 0 THEN {<<>>}
    ELSE LET S == SeqsUpTo(n - 1)
         IN  S \cup {Append(s, v) : s \in {t \in S : Len(t) = n - 1}, v \in Values}

\* ---------------------------------------------------------------- state
Init ==
    /\ observable = NoObservable
    /\ invoked = <<>>
    /\ observers = <<>>
    /\ handles = <<>>
    /\ calls = 0

\* new Observable(producer): the producer is stored, not run
NewObservable(p) ==
    /\ observable = NoObservable
    /\ observable' = p
    /\ UNCHANGED <<invoked, observers, handles, calls>>

\* Observable.from(values)
From(values) ==
    /\ observable = NoObservable
    /\ observable' = [kind |-> "from", values |-> values]
    /\ UNCHANGED <<invoked, observers, handles, calls>>

\* faulty variant: the Observable keeps its first Observer and hands it out again
\* without running the producer a second time
SubscribeCached(handlers) ==
    /\ observable # NoObservable
    /\ Len(handles) < MaxObservers
    /\ IF observers = <<>>
       THEN LET r == RunProducer(observable, NewObserver(handlers))
                o == IF r.ret # None THEN ObsSetUnsubscribe(r.observer, r.ret) ELSE r.observer
            IN  /\ observers' = <<o>>
                /\ invoked' = <<1>>
                /\ handles' = <<1>>
       ELSE /\ handles' = Append(handles, 1)
            /\ UNCHANGED <<observers, invoked>>
    /\ UNCHANGED <<observable, calls>>

\* observable.subscribe(handlers)
Subscribe(handlers) ==
    /\ observable # NoObservable
    /\ Len(observers) < MaxObservers
    /\ LET id == Len(observers) + 1
           r == RunProducer(observable, NewObserver(handlers))
           o == IF r.ret # None THEN ObsSetUnsubscribe(r.observer, r.ret) ELSE r.observer
       IN  /\ observers' = Append(observers, o)
           /\ invoked' = Append(invoked, id)
           /\ handles' = Append(handles, id)
    /\ UNCHANGED <<observable, calls>>

\* the producer kept the observer (the closure of Observable.from does not)
Retained(id) ==
    /\ id \in 1..Len(observers)
    /\ observable.kind = "custom"

\* later calls made by the producer on the observer it kept
Next(id, value) ==
    /\ Retained(id)
    /\ calls < MaxCalls
    /\ observers' = [observers EXCEPT ![id] = ObsNext(Called(@, "next"), value)]
    /\ calls' = calls + 1
    /\ UNCHANGED <<observable, invoked, handles>>

Error(id, error) ==
    /\ Retained(id)
    /\ calls < MaxCalls
    /\ observers' = [observers EXCEPT ![id] = ObsError(Called(@, "error"), error)]
    /\ calls' = calls + 1
    /\ UNCHANGED <<observable, invoked, handles>>

Complete(id) ==
    /\ Retained(id)
    /\ calls < MaxCalls
    /\ observers' = [observers EXCEPT ![id] = ObsComplete(Called(@, "complete"))]
    /\ calls' = calls + 1
    /\ UNCHANGED <<observable, invoked, handles>>

SetUnsubscribe(id) ==
    /\ Retained(id)
    /\ calls < MaxCalls
    /\ observers' = [observers EXCEPT ![id] = ObsSetUnsubscribe(Called(@, "setUnsubscribe"), LateTeardown)]
    /\ calls' = calls + 1
    /\ UNCHANGED <<observable, invoked, handles>>

\* faulty variant: the termination state lives in the Observable, shared by every
\* Observer derived from it
HandleUnsubscribeShared(h) ==
    /\ h \in 1..Len(handles)
    /\ calls < MaxCalls
    /\ observers' = [id \in 1..Len(observers) |->
                        IF id = handles[h] THEN ObsUnsubscribe(Called(observers[id], "unsubscribe"))
                        ELSE [observers[id] EXCEPT !.isUnsubscribed = TRUE]]
    /\ calls' = calls + 1
    /\ UNCHANGED <<observable, invoked, handles>>

\* subscription.unsubscribe() on a handle returned by subscribe
HandleUnsubscribe(h) ==
    /\ h \in 1..Len(handles)
    /\ calls < MaxCalls
    /\ observers' = [observers EXCEPT ![handles[h]] = ObsUnsubscribe(Called(@, "unsubscribe"))]
    /\ calls' = calls + 1
    /\ UNCHANGED <<observable, invoked, handles>>

Next_ ==
    \/ \E p \in CustomProducers : NewObservable(p)
    \/ \E values \in SeqsUpTo(MaxLen) : From(values)
    \/ \E handlers \in HandlerSets : Subscribe(handlers)
    \/ \E id \in 1..MaxObservers, value \in Values : Next(id, value)
    \/ \E id \in 1..MaxObservers, error \in Values : Error(id, error)
    \/ \E id \in 1..MaxObservers : Complete(id)
    \/ \E id \in 1..MaxObservers : SetUnsubscribe(id)
    \/ \E h \in 1..MaxObservers : HandleUnsubscribe(h)

Spec == Init /\ [][Next_]_vars

\* ----------------------------------------------------------- re-entrancy
\* Handlers that call back: all three handlers are supplied and one of
\* them, while it executes, makes one call on the Observer it was invoked
\* by.  A handler never calls the method that invoked it (that recursion
\* does not end), so a callback is one level deep.
Reactions ==
    {r \in [on : {"next", "error", "complete"}, call : {"unsubscribe", "error", "complete"}] :
        r.on # r.call}

AllHandlers == [next |-> TRUE, error |-> TRUE, complete |-> TRUE]

NewReObserver(reaction) ==
    [handlers |-> AllHandlers, isUnsubscribed |-> FALSE, unsubscribeFn |-> None,
     entered |-> "constructor", trace |-> <<>>, reaction |-> reaction]

\* the call the body of handler `on` makes, if it is the one that calls back
React(o, on) ==
    IF o.reaction.on # on THEN o
    ELSE CASE o.reaction.call = "unsubscribe" -> ObsUnsubscribe(o)
           [] o.reaction.call = "error" -> ObsError(o, 1)
           [] o.reaction.call = "complete" -> ObsComplete(o)

ReObsNext(o, value) ==
    IF o.handlers.next /\ ~o.isUnsubscribed THEN React(Ran(o, "next", value), "next") ELSE o

ReObsError(o, error) ==
    IF ~o.isUnsubscribed
    THEN ObsUnsubscribe(IF o.handlers.error THEN React(Ran(o, "error", error), "error") ELSE o)
    ELSE o

ReObsComplete(o) ==
    IF ~o.isUnsubscribed
    THEN ObsUnsubscribe(IF o.handlers.complete THEN React(Ran(o, "complete", 0), "complete") ELSE o)
    ELSE o

ReSubscribe(reaction) ==
    /\ observable # NoObservable
    /\ Len(observers) < MaxObservers
    /\ LET id == Len(observers) + 1
           new == NewReObserver(reaction)
           o1 == IF observable.syncError THEN ReObsError(Called(new, "error"), 1) ELSE new
           o == IF observable.ret # None THEN ObsSetUnsubscribe(o1, observable.ret) ELSE o1
       IN  /\ observers' = Append(observers, o)
           /\ invoked' = Append(invoked, id)
           /\ handles' = Append(handles, id)
    /\ UNCHANGED <<observable, calls>>

ReNext(id, value) ==
    /\ Retained(id)
    /\ calls < MaxCalls
    /\ observers' = [observers EXCEPT ![id] = ReObsNext(Called(@, "next"), value)]
    /\ calls' = calls + 1
    /\ UNCHANGED <<observable, invoked, handles>>

ReError(id, error) ==
    /\ Retained(id)
    /\ calls < MaxCalls
    /\ observers' = [observers EXCEPT ![id] = ReObsError(Called(@, "error"), error)]
    /\ calls' = calls + 1
    /\ UNCHANGED <<observable, invoked, handles>>

ReComplete(id) ==
    /\ Retained(id)
    /\ calls < MaxCalls
    /\ observers' = [observers EXCEPT ![id] = ReObsComplete(Called(@, "complete"))]
    /\ calls' = calls + 1
    /\ UNCHANGED <<observable, invoked, handles>>

NextReentrant ==
    \/ \E p \in CustomProducers : NewObservable(p)
    \/ \E reaction \in Reactions : ReSubscribe(reaction)
    \/ \E id \in 1..MaxObservers, value \in Values : ReNext(id, value)
    \/ \E id \in 1..MaxObservers, error \in Values : ReError(id, error)
    \/ \E id \in 1..MaxObservers : ReComplete(id)
    \/ \E h \in 1..MaxObservers : HandleUnsubscribe(h)

SpecReentrant == Init /\ [][NextReentrant]_vars

\* ------------------------------------------------------------ properties
Ids == 1..Len(observers)

\* the events of o's trace that are runs of the bodies named in ops
Runs(o, ops) == SelectSeq(o.trace, LAMBDA e : e.op \in ops)

TerminalRuns(o) == Runs(o, {"error", "complete"})
TeardownRuns(o) == Runs(o, {"teardown"})

\* C1: for every Observer, whatever calls were made on it, the error and
\* complete handler bodies have executed at most once between them.
C1_AtMostOneTerminal ==
    \A id \in Ids : Len(TerminalRuns(observers[id])) <= 1

\* an Observer whose error handler ran and on which complete was called later
C1_Witness ==
    \E id \in Ids :
        /\ observers[id].handlers.complete
        /\ observers[id].entered = "complete"
        /\ Len(Runs(observers[id], {"error"})) = 1

\* C2: once unsubscribe has been called on an Observer that has a
\* teardown attached, the teardown has run exactly once in total, whatever
\* terminating calls came before it.
C2_TeardownExactlyOnce ==
    \A id \in Ids :
        (observers[id].entered = "unsubscribe" /\ observers[id].unsubscribeFn # None)
            => Len(TeardownRuns(observers[id])) = 1

\* C3: an unsubscribe call that follows an unsubscribe call on the same
\* Observer changes nothing: no handler, no teardown, no field.
C3_UnsubscribeIdempotent ==
    [][\A id \in Ids :
          (observers[id].entered = "unsubscribe" /\ observers'[id].entered = "unsubscribe")
              => observers'[id] = observers[id]]_vars

\* C4: no next, error or complete handler body ever runs on an Observer
\* that is already terminated.
C4_SilentAfterTermination ==
    \A id \in Ids :
        \A k \in 1..Len(observers[id].trace) :
            observers[id].trace[k].op \in {"next", "error", "complete"}
                => ~observers[id].trace[k].term

\* a terminated Observer with all handlers on which next, error or
\* complete was called after it terminated
C4_Witness ==
    \E id \in Ids :
        /\ observers[id].handlers = [next |-> TRUE, error |-> TRUE, complete |-> TRUE]
        /\ observers[id].isUnsubscribed
        /\ observers[id].entered = "next"

\* C5: on a subscription to Observable.from(values), the Observer is
\* terminated when subscribe returns and a later unsubscribe runs nothing
\* (in particular not the teardown).
C5_FromUnsubscribeRunsNothing ==
    observable.kind = "from" =>
        \A id \in Ids :
            /\ observers[id].isUnsubscribed
            /\ \A k \in 1..Len(observers[id].trace) : observers[id].trace[k].via # "unsubscribe"

\* what a subscriber with the given handlers is owed by from(values):
\* each value in order, then complete
RECURSIVE Emissions(_)
Emissions(values) ==
    IF values = <<>> THEN <<>>
    ELSE <<[op |-> "next", arg |-> Head(values)]>> \o Emissions(Tail(values))

Owed(values, handlers) ==
    (IF handlers.next THEN Emissions(values) ELSE <<>>)
        \o (IF handlers.complete THEN <<[op |-> "complete", arg |-> 0]>> ELSE <<>>)

\* the handler bodies that ran on o, in order, without the teardown runs
Delivered(o) ==
    LET r == Runs(o, {"next", "error", "complete"})
    IN  [k \in 1..Len(r) |-> [op |-> r[k].op, arg |-> r[k].arg]]

\* C6: from the moment subscribe returns, an Observer of from(values) has
\* received each value once, in order, then complete once, and nothing else
\* (a handler that was not supplied receives nothing).
C6_FromEmitsInOrderThenCompletes ==
    observable.kind = "from" =>
        \A id \in Ids :
            Delivered(observers[id]) = Owed(observable.values, observers[id].handlers)

\* from of two different values, subscribed with next and complete handlers
C6_Witness ==
    /\ observable.kind = "from"
    /\ Len(observable.values) = 2
    /\ observable.values[1] # observable.values[2]
    /\ \E id \in Ids : observers[id].handlers.next /\ observers[id].handlers.complete

\* C7: two handles of the same Observable close over different Observers,
\* and a step that changes one of them leaves the other as it was (fields
\* and handler runs).
C7_IndependentSubscriptions ==
    [][\A h1, h2 \in 1..Len(handles) :
          h1 # h2 =>
              /\ handles[h1] # handles[h2]
              /\ observers'[handles[h1]] # observers[handles[h1]]
                    => observers'[handles[h2]] = observers[handles[h2]]]_vars

\* one subscription terminated while the other one is still active
C7_Witness ==
    \E a, b \in Ids :
        /\ a # b
        /\ observers[a].isUnsubscribed
        /\ observers[a].entered \in {"error", "complete", "unsubscribe"}
        /\ ~observers[b].isUnsubscribed
        /\ observers[b].unsubscribeFn # None

\* C8: the error handler runs only inside a call of error, the complete
\* handler only inside a call of complete; neither ever runs inside unsubscribe.
C8_UnsubscribeIsSilent ==
    \A id \in Ids :
        \A k \in 1..Len(observers[id].trace) :
            LET e == observers[id].trace[k]
            IN  e.op \in {"error", "complete"} => e.via = e.op

\* an active Observer with error and complete handlers was unsubscribed
C8_Witness ==
    \E id \in Ids :
        /\ observers[id].handlers.error
        /\ observers[id].handlers.complete
        /\ observers[id].entered = "unsubscribe"
        /\ TerminalRuns(observers[id]) = <<>>

\* C9: error or complete called on an active Observer that has no such
\* handler runs no handler, terminates the Observer and runs the attached
\* teardown (and nothing else).
C9_MissingHandlerStillTerminates ==
    [][\A id \in Ids :
          LET o == observers[id]
              o2 == observers'[id]
          IN  (/\ ~o.isUnsubscribed
               /\ o2.entered \in {"error", "complete"}
               /\ calls' = calls + 1
               /\ \A other \in Ids \ {id} : observers'[other] = observers[other]
               /\ ~o.handlers[o2.entered])
                  => /\ o2.isUnsubscribed
                     /\ o2.unsubscribeFn = o.unsubscribeFn
                     /\ o2.trace = o.trace \o
                            (IF o.unsubscribeFn # None
                             THEN <<[op |-> "teardown", arg |-> o.unsubscribeFn,
                                     term |-> TRUE, via |-> o2.entered]>>
                             ELSE <<>>)]_vars

\* error reached an Observer without error handler: its teardown ran, no handler did
C9_Witness ==
    \E id \in Ids :
        /\ ~observers[id].handlers.error
        /\ observers[id].entered = "error"
        /\ observers[id].isUnsubscribed
        /\ Len(observers[id].trace) = 1
        /\ observers[id].trace[1].op = "teardown"
        /\ observers[id].trace[1].via = "error"

\* C10: the producer has been run once per subscribe call, each time with
\* the Observer created by that call, and these Observers are all
\* different; constructing the Observable runs nothing.
C10_OneProducerRunPerSubscribe ==
    /\ Len(invoked) = Len(handles)
    /\ Len(observers) = Len(handles)
    /\ \A k \in 1..Len(handles) : invoked[k] = handles[k]
    /\ \A j, k \in 1..Len(handles) : j # k => handles[j] # handles[k]
    /\ observable = NoObservable => invoked = <<>>

\* the same Observable subscribed twice
C10_Witness ==
    /\ Len(handles) = 2
    /\ Len(invoked) = 2

\* C11: with handlers that call back into their Observer while they run,
\* still at most one terminal handler body ever executes on an Observer,
\* and one call made on it from outside runs its teardown at most once.
C11_ReentrantTerminationOnce ==
    [][\A id \in Ids :
          /\ Len(TerminalRuns(observers'[id])) <= 1
          /\ Len(TeardownRuns(observers'[id])) <= Len(TeardownRuns(observers[id])) + 1]_vars

\* what one terminal call `op` with argument `arg` adds to the trace of an
\* active Observer o that has a teardown attached
TerminalSteps(o, op, arg) ==
    (IF o.handlers[op]
     THEN <<[op |-> op, arg |-> arg, term |-> FALSE, via |-> op]>> ELSE <<>>)
        \o <<[op |-> "teardown", arg |-> o.unsubscribeFn, term |-> TRUE, via |-> op]>>

\* C12: error(err) or complete() on an active Observer with a teardown
\* attached runs the matching handler first (error with err itself) while
\* the Observer is not yet terminated, then the teardown with the Observer
\* terminated, and leaves the Observer terminated.
C12_HandlerThenTerminatedThenTeardown ==
    [][\A id \in Ids :
          (~observers[id].isUnsubscribed /\ observers[id].unsubscribeFn # None) =>
              /\ \A err \in Values :
                    Error(id, err) =>
                        /\ observers'[id].isUnsubscribed
                        /\ observers'[id].trace =
                               observers[id].trace \o TerminalSteps(observers[id], "error", err)
              /\ Complete(id) =>
                    /\ observers'[id].isUnsubscribed
                    /\ observers'[id].trace =
                           observers[id].trace \o TerminalSteps(observers[id], "complete", 0)]_vars

\* error(2) reached an error handler, then the teardown ran
C12_Witness ==
    \E id \in Ids :
        /\ observers[id].isUnsubscribed
        /\ Len(observers[id].trace) = 2
        /\ observers[id].trace[1] = [op |-> "error", arg |-> 2, term |-> FALSE, via |-> "error"]
        /\ observers[id].trace[2].op = "teardown"

\* C13: a terminated Observer stays terminated in every step; an Observer
\* becomes terminated only in a call of error, complete or unsubscribe; a
\* new Observer on which none of them was called is active.
C13_TerminatedIsOneWay ==
    [][/\ \A id \in Ids :
             /\ observers[id].isUnsubscribed => observers'[id].isUnsubscribed
             /\ (~observers[id].isUnsubscribed /\ observers'[id].isUnsubscribed)
                    => observers'[id].entered \in {"error", "complete", "unsubscribe"}
       /\ \A id \in (1..Len(observers')) \ Ids :
             observers'[id].isUnsubscribed => observers'[id].entered \in {"error", "complete"}]_vars

\* setUnsubscribe was called on a terminated Observer, which is still terminated
C13_Witness ==
    \E id \in Ids :
        /\ observers[id].isUnsubscribed
        /\ observers[id].entered = "setUnsubscribe"
        /\ observers[id].unsubscribeFn = LateTeardown

\* C14: next(value) leaves isUnsubscribed and _unsubscribe as they were and
\* runs nothing but the next handler, with value, and that exactly when the
\* Observer is active and has a next handler.
C14_NextChangesNothing ==
    [][\A id \in Ids, value \in Values :
          Next(id, value) =>
              /\ observers'[id].isUnsubscribed = observers[id].isUnsubscribed
              /\ observers'[id].unsubscribeFn = observers[id].unsubscribeFn
              /\ observers'[id].handlers = observers[id].handlers
              /\ observers'[id].trace = observers[id].trace \o
                     (IF ~observers[id].isUnsubscribed /\ observers[id].handlers.next
                      THEN <<[op |-> "next", arg |-> value, term |-> FALSE, via |-> "next"]>>
                      ELSE <<>>)]_vars

\* next(2) was delivered to an Observer that is still active with its teardown
C14_Witness ==
    \E id \in Ids :
        /\ ~observers[id].isUnsubscribed
        /\ observers[id].unsubscribeFn # None
        /\ observers[id].entered = "next"
        /\ observers[id].trace # <<>>
        /\ observers[id].trace[Len(observers[id].trace)].arg = 2

\* the events a step added to the trace of Observer id
Added(id) == SubSeq(observers'[id].trace, Len(observers[id].trace) + 1, Len(observers'[id].trace))

\* C15: every teardown run happened with isUnsubscribed already true and
\* ran the closure that was attached before the call; setUnsubscribe runs
\* nothing, and no teardown runs during subscribe (the attach that follows
\* the producer included), even on an Observer that is already terminated.
C15_TeardownOnlyWhenTerminatedAndAttached ==
    [][/\ \A id \in 1..Len(observers') :
             \A k \in 1..Len(observers'[id].trace) :
                 observers'[id].trace[k].op = "teardown"
                     => observers'[id].trace[k].term /\ observers'[id].trace[k].arg # None
       /\ \A id \in Ids :
             /\ \A k \in 1..Len(Added(id)) :
                    Added(id)[k].op = "teardown"
                        => Added(id)[k].arg = observers[id].unsubscribeFn
             /\ SetUnsubscribe(id) => observers'[id].trace = observers[id].trace
       /\ \A id \in (1..Len(observers')) \ Ids :
             TeardownRuns(observers'[id]) = <<>>]_vars

\* an Observer that terminated inside subscribe got its teardown attached
\* afterwards, and the teardown has not run
C15_Witness ==
    \E id \in Ids :
        /\ observers[id].isUnsubscribed
        /\ observers[id].entered \in {"error", "complete"}
        /\ observers[id].unsubscribeFn # None
        /\ observers[id].trace = <<>>

====
